---------------------------- MODULE Spec2Model ----------------------------
(***************************************************************************)
(* Model of the two SQL reward functions of verl/utils/reward_score:       *)
(*   NL2SQL_reward.compute_score  and  synsql_reward.compute_score.        *)
(*                                                                         *)
(* A SQL text is modelled as the sequence of its whitespace-separated      *)
(* tokens (punctuation and operators are tokens of their own), so that     *)
(* whitespace collapsing is the identity and the regular expressions of    *)
(* the source become searches over token sequences.  Letter case is kept:  *)
(* "FROM" and "from" are different tokens related by Upper and Lower.      *)
(*                                                                         *)
(* Scores of synsql_reward are kept in eighths of a point (the resolution  *)
(* of 0.5 * found / 4); every returned value is kept in tenths of a point  *)
(* (synsql_reward rounds to one decimal).                                  *)
(***************************************************************************)
EXTENDS Integers, Sequences, FiniteSets, TLC

VARIABLES
    module,        \* which compute_score is being evaluated
    solution_str,  \* argument: the model's response
    ground_truth,  \* argument: reference SQL and metadata
    extra_info,    \* argument: optional database connection
    pc,            \* position inside compute_score
    calls,         \* the helper functions called so far, in order
    rewards,       \* NL2SQL_reward: the rewards dict
    scores,        \* synsql_reward: the scores dict (eighths of a point)
    sql_query,     \* the candidate SQL that was extracted
    flags,         \* locals: format_ok, execution_ok, result_ok, reason
    strategy,      \* comparison strategy used by the result stage
    results,       \* rows fetched by _compare_execution_results
    outcome,       \* "running", "returned" or "raised"
    exception,     \* the exception that left compute_score, "" when none
    ret            \* the returned value, in tenths of a point

vars == << module, solution_str, ground_truth, extra_info, pc, calls, rewards,
           scores, sql_query, flags, strategy, results, outcome, exception, ret >>

-----------------------------------------------------------------------------
(* Text: tokens, letter case, keywords                                       *)

\* str.upper() of one token: the tokens that have lower-case letters and an
\* upper-case spelling in the texts of the model
Upper(t) ==
    CASE t = "select" -> "SELECT"
      [] t = "from" -> "FROM"
      [] t = "where" -> "WHERE"
      [] t = "and" -> "AND"
      [] t = "or" -> "OR"
      [] t = "join" -> "JOIN"
      [] t = "on" -> "ON"
      [] t = "group" -> "GROUP"
      [] t = "by" -> "BY"
      [] t = "order" -> "ORDER"
      [] t = "having" -> "HAVING"
      [] t = "limit" -> "LIMIT"
      [] t = "delete" -> "DELETE"
      [] t = "insert" -> "INSERT"
      [] t = "update" -> "UPDATE"
      [] t = "with" -> "WITH"
      [] t = "as" -> "AS"
      [] t = "union" -> "UNION"
      [] t = "all" -> "ALL"
      [] t = "case" -> "CASE"
      [] t = "when" -> "WHEN"
      [] t = "end" -> "END"
      [] t = "create" -> "CREATE"
      [] t = "drop" -> "DROP"
      [] t = "code_snippets" -> "CODE_SNIPPETS"
      [] t = "description" -> "DESCRIPTION"
      [] OTHER -> t

\* str.lower() of one token
Lower(t) ==
    CASE t = "SELECT" -> "select"
      [] t = "FROM" -> "from"
      [] t = "WHERE" -> "where"
      [] t = "AND" -> "and"
      [] t = "OR" -> "or"
      [] t = "JOIN" -> "join"
      [] t = "ON" -> "on"
      [] t = "GROUP" -> "group"
      [] t = "BY" -> "by"
      [] t = "ORDER" -> "order"
      [] t = "HAVING" -> "having"
      [] t = "LIMIT" -> "limit"
      [] t = "DELETE" -> "delete"
      [] t = "INSERT" -> "insert"
      [] t = "UPDATE" -> "update"
      [] t = "WITH" -> "with"
      [] t = "AS" -> "as"
      [] t = "UNION" -> "union"
      [] t = "ALL" -> "all"
      [] t = "CASE" -> "case"
      [] t = "WHEN" -> "when"
      [] t = "END" -> "end"
      [] t = "CREATE" -> "create"
      [] t = "DROP" -> "drop"
      [] t = "CODE_SNIPPETS" -> "code_snippets"
      [] t = "DESCRIPTION" -> "description"
      [] OTHER -> t

\* tokens that hold no character of [A-Za-z0-9_]
NonWordTokens == { ",", ";", "(", ")", "=", ">", "<", "*" }

\* qualified column references "q.c", as (token, qualifier, column)
QualifiedTokens ==
    { << "code_snippets.description", "code_snippets", "description" >>,
      << "code_snippets.title", "code_snippets", "title" >>,
      << "cs.description", "cs", "description" >>,
      << "x.description", "x", "description" >> }

\* '.' in token
HasDot(t) == \E q \in QualifiedTokens : q[1] = t

\* token.split('.')
SplitDot(t) == LET q == CHOOSE q \in QualifiedTokens : q[1] = t
               IN  << q[2], q[3] >>

\* the token is matched whole by \w+
IsWord(t) == t \notin NonWordTokens /\ ~ HasDot(t)

\* the token is matched whole by \d+
IsDigits(t) == t \in { "0", "1", "5", "10" }

\* words sqlparse lexes as keywords (upper-cased by keyword_case='upper')
Keywords == { "SELECT", "FROM", "WHERE", "AND", "OR", "JOIN", "ON", "GROUP",
              "BY", "ORDER", "HAVING", "LIMIT", "DELETE", "INSERT", "UPDATE",
              "WITH", "AS", "UNION", "ALL", "CASE", "WHEN", "END", "CREATE",
              "DROP" }

IsKeyword(t) == Upper(t) \in Keywords

\* re.IGNORECASE match of one keyword against one token
IsKw(t, kw) == t = kw \/ Upper(t) = kw

\* the least member of a set of indices, 0 when the set is empty
Least(I) == IF I = {} THEN 0 ELSE CHOOSE i \in I : \A j \in I : i <= j

\* smallest index i >= from with s[i] matching kw (ignoring case), else 0
FirstKw(s, kw, from) ==
    Least({ i \in from..Len(s) : IsKw(s[i], kw) })

\* smallest index i >= from with s[i], s[i+1] matching "k1 k2", else 0
FirstKw2(s, k1, k2, from) ==
    Least({ i \in from..(Len(s) - 1) : IsKw(s[i], k1) /\ IsKw(s[i+1], k2) })

\* smallest positive member of a set of indices, 0 when there is none
MinPos(S) == Least({ i \in S : i > 0 })

\* str.split on a separator token: the pieces between separators
RECURSIVE SplitOn(_, _)
SplitOn(s, seps) ==
    LET I == { i \in 1..Len(s) : s[i] \in seps }
    IN  IF I = {} THEN << s >>
        ELSE LET i == CHOOSE k \in I : \A j \in I : k <= j
             IN  << SubSeq(s, 1, i - 1) >> \o SplitOn(SubSeq(s, i + 1, Len(s)), seps)

\* the set of elements of a sequence
Range(s) == { s[i] : i \in 1..Len(s) }

\* sum(d.values()) for a record of numbers
RECURSIVE SumOver(_, _)
SumOver(f, D) ==
    IF D = {} THEN 0
    ELSE LET k == CHOOSE x \in D : TRUE IN f[k] + SumOver(f, D \ {k})

Min(a, b) == IF a <= b THEN a ELSE b

-----------------------------------------------------------------------------
(* sqlparse, as the source uses it                                           *)

\* sqlparse.parse(sql): the statements, split after each ";"
RECURSIVE Parse(_)
Parse(sql) ==
    LET I == { i \in 1..Len(sql) : sql[i] = ";" }
    IN  IF sql = << >> THEN << >>
        ELSE IF I = {} THEN << sql >>
        ELSE LET i == CHOOSE k \in I : \A j \in I : k <= j
             IN  << SubSeq(sql, 1, i) >> \o Parse(SubSeq(sql, i + 1, Len(sql)))

\* index of the first token of stmt at parenthesis depth 0 after position i
\* that follows a closed parenthesis group, 0 when there is none
RECURSIVE AfterCte(_, _, _)
AfterCte(stmt, i, depth) ==
    IF i > Len(stmt) THEN 0
    ELSE IF stmt[i] = "(" THEN AfterCte(stmt, i + 1, depth + 1)
    ELSE IF stmt[i] = ")" THEN
         IF depth = 1 THEN (IF i + 1 <= Len(stmt) THEN i + 1 ELSE 0)
         ELSE AfterCte(stmt, i + 1, depth - 1)
    ELSE AfterCte(stmt, i + 1, depth)

\* a get_type that takes every statement for a SELECT
GetTypeAlwaysSelect(stmt) == "SELECT"

\* Statement.get_type(): the leading DML/DDL keyword, the DML keyword that
\* follows the definitions of a WITH, else UNKNOWN
GetType(stmt) ==
    LET Dml == { "SELECT", "INSERT", "UPDATE", "DELETE", "CREATE", "DROP" }
    IN  IF stmt = << >> THEN "UNKNOWN"
        ELSE IF Upper(stmt[1]) \in Dml THEN Upper(stmt[1])
        ELSE IF Upper(stmt[1]) = "WITH" THEN
             LET j == AfterCte(stmt, 2, 0)
             IN  IF j > 0 /\ Upper(stmt[j]) \in Dml THEN Upper(stmt[j])
                 ELSE "UNKNOWN"
        ELSE "UNKNOWN"

-----------------------------------------------------------------------------
(* Inputs                                                                    *)

\* test_NL2SQL_reward.py "Perfect response - Simple query" (Scenario A)
QA == << "SELECT", "description", ",", "complexity", "FROM", "code_snippets",
         "WHERE", "complexity", ">", "5", "AND", "is_public", "=", "1" >>

\* test_NL2SQL_reward.py "Invalid table reference" (Scenario B)
QB == << "SELECT", "description", "FROM", "public_snippets",
         "WHERE", "is_public", "=", "1" >>

\* the reference SQL of "Invalid table reference" and "Malformed SQL syntax"
QRef == << "SELECT", "description", "FROM", "code_snippets",
           "WHERE", "is_public", "=", "1" >>

\* test_NL2SQL_reward.py "Malformed SQL syntax"
QMalformed == << "SELECT", "description", "FROM", "code_snippets",
                 "WHERE", "is_public", "=" >>

\* an implicit join: the second table follows a comma, not FROM or JOIN
QComma == << "SELECT", "description", "FROM", "code_snippets", ",",
             "public_snippets", "WHERE", "is_public", "=", "1" >>

\* a statement that is not a SELECT, on a table the schema does not have
QDelete == << "DELETE", "FROM", "public_snippets", "WHERE", "is_public", "=", "1" >>

\* a join with its ON condition (a "complex query feature")
QJoin == << "SELECT", "description", "FROM", "code_snippets", "JOIN",
            "snippet_usage", "ON", "snippet_id", "=", "usage_id",
            "WHERE", "is_public", "=", "1" >>

\* a reference with an ORDER BY clause
QOrder == << "SELECT", "description", "FROM", "code_snippets",
             "WHERE", "is_public", "=", "1", "ORDER", "BY", "description" >>

\* QA with its two WHERE conditions in the other order
QASwapped == << "SELECT", "description", ",", "complexity", "FROM", "code_snippets",
                "WHERE", "is_public", "=", "1", "AND", "complexity", ">", "5" >>

\* QA with its two WHERE conditions joined by OR
QAOr == << "SELECT", "description", ",", "complexity", "FROM", "code_snippets",
           "WHERE", "complexity", ">", "5", "OR", "is_public", "=", "1" >>

\* a join with two WHERE conditions
QJoinAnd == << "SELECT", "description", "FROM", "code_snippets", "JOIN",
               "snippet_usage", "ON", "snippet_id", "=", "usage_id",
               "WHERE", "is_public", "=", "1", "AND", "complexity", ">", "5" >>

\* QJoinAnd with the joined tables and the WHERE conditions in the other order
QJoinSwapped == << "SELECT", "description", "FROM", "snippet_usage", "JOIN",
                   "code_snippets", "ON", "snippet_id", "=", "usage_id",
                   "WHERE", "complexity", ">", "5", "AND", "is_public", "=", "1" >>

\* QRef with the table name in upper case
QUpper == << "SELECT", "description", "FROM", "CODE_SNIPPETS",
             "WHERE", "is_public", "=", "1" >>

\* QRef with a column qualified by a name that is no table and no alias
QUnresolved == << "SELECT", "x.description", "FROM", "code_snippets",
                  "WHERE", "is_public", "=", "1" >>

\* a DDL statement
QDrop == << "DROP", "TABLE", "code_snippets" >>

\* a join of a table of the schema with a table the schema does not have
QJoinMissing == << "SELECT", "description", "FROM", "code_snippets", "JOIN",
                   "public_snippets", "ON", "snippet_id", "=", "usage_id",
                   "WHERE", "is_public", "=", "1" >>

\* the empty text
QEmpty == << >>

\* The texts are held in the state by name.
Text(name) ==
    CASE name = "QA" -> QA
      [] name = "QB" -> QB
      [] name = "QRef" -> QRef
      [] name = "QMalformed" -> QMalformed
      [] name = "QComma" -> QComma
      [] name = "QDelete" -> QDelete
      [] name = "QJoin" -> QJoin
      [] name = "QOrder" -> QOrder
      [] name = "QASwapped" -> QASwapped
      [] name = "QAOr" -> QAOr
      [] name = "QJoinAnd" -> QJoinAnd
      [] name = "QJoinSwapped" -> QJoinSwapped
      [] name = "QUpper" -> QUpper
      [] name = "QUnresolved" -> QUnresolved
      [] name = "QDrop" -> QDrop
      [] name = "QJoinMissing" -> QJoinMissing
      [] OTHER -> QEmpty

\* candidate SQL texts
Candidates == { "QA", "QB", "QRef", "QMalformed", "QComma", "QDelete", "QJoin", "QEmpty",
                "QASwapped", "QAOr", "QJoinSwapped", "QUpper",
                "QUnresolved", "QDrop", "QJoinMissing" }

\* reference SQL texts (ground_truth['expected_sql'])
References == { "QA", "QRef", "QOrder", "QEmpty", "QJoinAnd" }

\* ground_truth['sql_complexity']: the three documented values, a value
\* outside the enumeration, and the key being absent
Complexities == { "Simple", "Moderate", "Complex", "Expert", "MISSING" }

\* ground_truth['question_style']: likewise
Styles == { "Vague", "Colloquial", "Imperative", "Formal", "MISSING" }

\* ground_truth.get('db_schema'): None, {} or the tests' schema
SchemaNames == { "None", "Empty", "S1" }

\* the tables (dict keys) and columns of a db_schema
Schema(name) ==
    IF name = "S1"
    THEN [ t \in { "code_snippets", "snippet_usage" } |->
             IF t = "code_snippets"
             THEN { "description", "complexity", "is_public" }
             ELSE { "usage_id", "snippet_id", "user_id" } ]
    ELSE << >>

\* Python truth value of the db_schema
SchemaTruthy(name) == DOMAIN Schema(name) # {}

\* the markers _validate_format looks for; "sql-fence" is the opening
\* marker of a fenced sql block (three backquotes and the word sql)
AllTags == { "<think>", "</think>", "<answer>", "</answer>", "sql-fence" }

\* The response.  json: what json.loads makes of the text ("object", another
\* JSON value, or not JSON at all); cot: the type of the object's 'cot';
\* fields: the "question" and "db_id" fields are present; tags: the markers
\* in the response text; closed: the SQL fence is closed; sql: the SQL of
\* the fenced block and of the "sql" field.
Response(json, cot, fields, tags, closed, sql) ==
    [ json |-> json, cot |-> cot, fields |-> fields, tags |-> tags,
      closed |-> closed, sql |-> sql ]

\* responses that differ in their SQL only: JSON objects with every field
\* and marker, and plain texts with every marker
WellFormedSolutions ==
    { Response("object", "str", TRUE, AllTags, TRUE, q) : q \in Candidates }
    \cup { Response("invalid", "absent", FALSE, AllTags, TRUE, q) : q \in { "QA", "QB" } }

\* responses with a defect of form
DefectiveSolutions ==
    { Response("object", "str", TRUE, t, TRUE, "QA") :
        t \in { AllTags \ {"sql-fence"}, AllTags \ {"</think>"}, {} } }
    \cup { Response("object", "str", TRUE, AllTags, FALSE, "QA"),
           Response("object", "str", FALSE, AllTags, TRUE, "QA"),
           Response("object", "null", TRUE, {}, FALSE, "QA"),
           Response("object", "absent", TRUE, {}, FALSE, "QA"),
           Response("array", "absent", FALSE, {}, FALSE, "QEmpty") }

Solutions == WellFormedSolutions \cup DefectiveSolutions

-----------------------------------------------------------------------------
(* NL2SQL_reward: helper functions                                           *)

\* the longest prefix of a token that [\w]+ matches ("" when there is none)
WordPrefix(t) == IF IsWord(t) THEN t
                 ELSE IF HasDot(t) THEN SplitDot(t)[1] ELSE ""

\* None, where the source returns or stores it
None == "<None>"

\* _validate_format: all three (start, end) marker pairs are in the response;
\* the end marker of the third pair is part of its start marker
N_ValidateFormat(response) == AllTags \subseteq response.tags

\* _extract_sql: the text between the fence markers, stripped; "" when a
\* marker is missing (ValueError)
N_ExtractSql(response) ==
    IF "sql-fence" \in response.tags /\ response.closed
    THEN response.sql ELSE "QEmpty"

\* _extract_tables: the word after each FROM or JOIN
N_ExtractTables(sql) ==
    { WordPrefix(sql[i + 1]) :
        i \in { k \in 1..(Len(sql) - 1) :
                  /\ IsKw(sql[k], "FROM") \/ IsKw(sql[k], "JOIN")
                  /\ WordPrefix(sql[k + 1]) # "" } }

\* _contains_complex_features: any of the six patterns occurs
N_ContainsComplexFeatures(sql) ==
    LET n == Len(sql)
    IN  \/ \E i \in 1..(n - 2) : /\ IsKw(sql[i], "JOIN") /\ IsWord(sql[i + 1])
                                 /\ IsKw(sql[i + 2], "ON")
        \/ FirstKw2(sql, "GROUP", "BY", 1) > 0
        \/ FirstKw(sql, "HAVING", 1) > 0
        \/ FirstKw2(sql, "UNION", "SELECT", 1) > 0
        \/ \E i \in 1..(n - 2) : /\ IsKw(sql[i], "UNION") /\ IsKw(sql[i + 1], "ALL")
                                 /\ IsKw(sql[i + 2], "SELECT")
        \/ \E i \in 1..(n - 3) : /\ IsKw(sql[i], "WITH") /\ IsWord(sql[i + 1])
                                 /\ IsKw(sql[i + 2], "AS") /\ sql[i + 3] = "("
        \/ \E i \in 1..(n - 1) : /\ IsKw(sql[i], "CASE") /\ IsKw(sql[i + 1], "WHEN")
                                 /\ FirstKw(sql, "END", i + 2) > 0

\* _validate_sql_execution: (is_valid, error)
\* a validation that accepts every statement
N_ValidateAnything(sql, schema, complexity) == [ valid |-> TRUE, reason |-> "" ]

N_ValidateSqlExecution(sql, schema, complexity) ==
    LET parsed == Parse(sql)
        tables == N_ExtractTables(sql)
    IN  IF parsed = << >> \/ \E k \in 1..Len(parsed) : GetType(parsed[k]) # "SELECT"
        THEN [ valid |-> FALSE, reason |-> "Only SELECT queries are supported" ]
        ELSE IF SchemaTruthy(schema) /\ \E t \in tables : t \notin DOMAIN Schema(schema)
        THEN [ valid |-> FALSE, reason |-> "Table not in schema" ]
        ELSE IF SchemaTruthy(schema) /\ complexity = "Complex"
                /\ ~ N_ContainsComplexFeatures(sql)
        THEN [ valid |-> FALSE, reason |-> "Missing complex query features" ]
        ELSE [ valid |-> TRUE, reason |-> "" ]

\* normalize_sql of _structural_sql_match, for a text with a statement: the
\* first statement, keywords upper-cased, identifiers lower-cased
N_NormalizeSql(sql) ==
    LET stmt == Parse(sql)[1]
    IN  [ i \in 1..Len(stmt) |->
            IF IsKeyword(stmt[i]) THEN Upper(stmt[i]) ELSE Lower(stmt[i]) ]

\* re.split(r'\s+AND\s+|\s+OR\s+', text): the separators are the upper-case
\* words AND and OR with text on both sides
RECURSIVE SplitConditions(_)
SplitConditions(s) ==
    LET I == { i \in 2..(Len(s) - 1) : s[i] \in { "AND", "OR" } }
    IN  IF I = {} THEN << s >>
        ELSE LET i == CHOOSE k \in I : \A j \in I : k <= j
             IN  << SubSeq(s, 1, i - 1) >> \o SplitConditions(SubSeq(s, i + 1, Len(s)))

\* the clause text that starts at token "first" and runs to just before the
\* first terminator at or after first + 1, or to the end of the text
ClauseText(s, first, terminators) ==
    LET e == MinPos(terminators)
    IN  IF e = 0 THEN SubSeq(s, first, Len(s)) ELSE SubSeq(s, first, e - 1)

\* _extract_select_columns
N_ExtractSelectColumns(s) ==
    LET i == FirstKw(s, "SELECT", 1)
        j == IF i = 0 THEN 0 ELSE FirstKw(s, "FROM", i + 2)
    IN  IF i = 0 \/ j = 0 THEN << >>
        ELSE SplitOn(SubSeq(s, i + 1, j - 1), { "," })

\* _extract_tables_with_aliases, scanning from token p on
RECURSIVE N_TablesWithAliasesFrom(_, _)
N_TablesWithAliasesFrom(s, p) ==
    LET I == { k \in p..(Len(s) - 1) :
                 /\ IsKw(s[k], "FROM") \/ IsKw(s[k], "JOIN")
                 /\ WordPrefix(s[k + 1]) # "" }
    IN  IF I = {} THEN << >>
        ELSE LET i     == CHOOSE k \in I : \A j \in I : k <= j
                 table == WordPrefix(s[i + 1])
                 whole == IsWord(s[i + 1])
                 viaAs == /\ whole /\ i + 3 <= Len(s) /\ IsKw(s[i + 2], "AS")
                          /\ WordPrefix(s[i + 3]) # ""
                 plain == whole /\ i + 2 <= Len(s) /\ WordPrefix(s[i + 2]) # ""
                 group2 == IF viaAs THEN WordPrefix(s[i + 3])
                           ELSE IF plain THEN WordPrefix(s[i + 2]) ELSE None
                 alias == IF group2 # table THEN group2 ELSE None
                 next  == IF viaAs THEN i + 4 ELSE IF plain THEN i + 3 ELSE i + 2
             IN  << << table, alias >> >> \o N_TablesWithAliasesFrom(s, next)

N_ExtractTablesWithAliases(s) == N_TablesWithAliasesFrom(s, 1)

\* _extract_conditions
N_ExtractConditions(s) ==
    LET i == FirstKw(s, "WHERE", 1)
    IN  IF i = 0 \/ i = Len(s) THEN << >>
        ELSE SplitConditions(ClauseText(s, i + 1,
                 { FirstKw2(s, "GROUP", "BY", i + 2), FirstKw2(s, "ORDER", "BY", i + 2) }))

\* _extract_group_by
N_ExtractGroupBy(s) ==
    LET i == FirstKw2(s, "GROUP", "BY", 1)
    IN  IF i = 0 \/ i + 1 = Len(s) THEN << >>
        ELSE SplitOn(ClauseText(s, i + 2,
                 { FirstKw(s, "HAVING", i + 3), FirstKw2(s, "ORDER", "BY", i + 3) }),
                 { "," })

\* _extract_order_by
N_ExtractOrderBy(s) ==
    LET i == FirstKw2(s, "ORDER", "BY", 1)
    IN  IF i = 0 \/ i + 1 = Len(s) THEN << >>
        ELSE SplitOn(SubSeq(s, i + 2, Len(s)), { "," })

\* _extract_having
N_ExtractHaving(s) ==
    LET i == FirstKw(s, "HAVING", 1)
    IN  IF i = 0 \/ i = Len(s) THEN << >>
        ELSE SplitConditions(ClauseText(s, i + 1,
                 { FirstKw2(s, "ORDER", "BY", i + 2), FirstKw(s, "LIMIT", i + 2) }))

\* _extract_limit
N_ExtractLimit(s) ==
    LET I == { k \in 1..(Len(s) - 1) : IsKw(s[k], "LIMIT") /\ IsDigits(s[k + 1]) }
    IN  IF I = {} THEN None
        ELSE s[(CHOOSE k \in I : \A j \in I : k <= j) + 1]

\* a fuzzy match that compares the whole text at every complexity
N_FuzzyAlwaysExact(generated, expected, complexity) ==
    [ strategy |-> "Exact", value |-> generated = expected ]

\* _fuzzy_sql_match: whole-text equality for Simple, else the seven clause
\* extractors must agree; "strategy" records which comparison was made
N_FuzzySqlMatch(generated, expected, complexity) ==
    IF complexity = "Simple"
    THEN [ strategy |-> "Exact", value |-> generated = expected ]
    ELSE [ strategy |-> "Structural",
           value |->
             /\ N_ExtractSelectColumns(generated) = N_ExtractSelectColumns(expected)
             /\ N_ExtractTablesWithAliases(generated) = N_ExtractTablesWithAliases(expected)
             /\ N_ExtractConditions(generated) = N_ExtractConditions(expected)
             /\ N_ExtractGroupBy(generated) = N_ExtractGroupBy(expected)
             /\ N_ExtractOrderBy(generated) = N_ExtractOrderBy(expected)
             /\ N_ExtractHaving(generated) = N_ExtractHaving(expected)
             /\ N_ExtractLimit(generated) = N_ExtractLimit(expected) ]

\* _structural_sql_match: normalize_sql indexes the first parsed statement,
\* which raises IndexError for a text without one
N_StructuralSqlMatch(generated_sql, expected_sql, complexity, question_style) ==
    IF Parse(generated_sql) = << >> \/ Parse(expected_sql) = << >>
    THEN [ raised |-> TRUE, strategy |-> "none", value |-> FALSE ]
    ELSE IF question_style = "Vague"
    THEN [ raised |-> FALSE ] @@ N_FuzzySqlMatch(N_NormalizeSql(generated_sql),
                                                 N_NormalizeSql(expected_sql), complexity)
    ELSE [ raised |-> FALSE, strategy |-> "Exact",
           value  |-> N_NormalizeSql(generated_sql) = N_NormalizeSql(expected_sql) ]

-----------------------------------------------------------------------------
(* synsql_reward: helper functions                                           *)

\* scores are kept in eighths of a point: 0.5 * (found / 4) is found eighths
Point == 8

\* _validate_structure: the "question", "cot", "sql" and "db_id" fields are
\* all present with a non-empty string value
S_ValidateStructure(response) ==
    /\ response.json = "object" /\ response.cot = "str"
    /\ response.fields /\ Text(response.sql) # << >>

\* _validate_format: sqlparse.parse does not raise; the four XML tags must
\* be in the cot
S_ValidateFormat(components) ==
    { "<think>", "</think>", "<answer>", "</answer>" } \subseteq components.tags

\* re.findall(r'JOIN\s+(\w+)'): the word after each JOIN, as one-token names
S_JoinTables(sql) ==
    { << WordPrefix(sql[i + 1]) >> :
        i \in { k \in 1..(Len(sql) - 1) :
                  IsKw(sql[k], "JOIN") /\ WordPrefix(sql[k + 1]) # "" } }

\* _extract_tables: the comma-separated pieces of the text between the first
\* FROM and the next WHERE, GROUP BY, ORDER BY or the end, and the word after
\* each JOIN.  A name is the sequence of its tokens.
S_ExtractTables(sql) ==
    LET i == FirstKw(sql, "FROM", 1)
    IN  ( IF i = 0 \/ i = Len(sql) THEN {}
          ELSE Range(SplitOn(ClauseText(sql, i + 1,
                   { FirstKw(sql, "WHERE", i + 2), FirstKw2(sql, "GROUP", "BY", i + 2),
                     FirstKw2(sql, "ORDER", "BY", i + 2) }), { "," })) )
        \cup S_JoinTables(sql)

\* the pieces of the SELECT list, as _extract_columns splits them
S_SelectPieces(sql) ==
    LET i == FirstKw(sql, "SELECT", 1)
        j == IF i = 0 THEN 0 ELSE FirstKw(sql, "FROM", i + 2)
    IN  IF i = 0 \/ j = 0 THEN << >> ELSE SplitOn(SubSeq(sql, i + 1, j - 1), { "," })

\* _extract_columns raises IndexError: col.split()[-1] of an empty piece
S_ExtractColumnsRaises(sql) ==
    \E k \in 1..Len(S_SelectPieces(sql)) : S_SelectPieces(sql)[k] = << >>

\* _extract_columns: the last word of each SELECT piece, and each name that
\* stands before =, < or > in the WHERE text
S_ExtractColumns(sql) ==
    LET pieces == S_SelectPieces(sql)
        w      == FirstKw(sql, "WHERE", 1)
        cond   == IF w = 0 \/ w = Len(sql) THEN << >>
                  ELSE ClauseText(sql, w + 1,
                         { FirstKw2(sql, "GROUP", "BY", w + 2),
                           FirstKw2(sql, "ORDER", "BY", w + 2) })
    IN  { pieces[k][Len(pieces[k])] : k \in 1..Len(pieces) }
        \cup { cond[k] : k \in { n \in 1..(Len(cond) - 1) :
                                   /\ cond[n + 1] \in { "=", "<", ">" }
                                   /\ IsWord(cond[n]) \/ HasDot(cond[n]) } }

\* 'JOIN', 'GROUP BY' or 'HAVING' in sql.upper()
S_HasComplexFeature(sql) ==
    \/ FirstKw(sql, "JOIN", 1) > 0
    \/ FirstKw2(sql, "GROUP", "BY", 1) > 0
    \/ FirstKw(sql, "HAVING", 1) > 0

\* _validate_sql_execution: (is_valid, error); an exception inside it is
\* caught and becomes (False, str(e))
S_ValidateSqlExecution(sql, schema, complexity) ==
    LET parsed  == Parse(sql)
        tables  == S_ExtractTables(sql)
        known   == DOMAIN Schema(schema)
    IN  IF parsed = << >>
        THEN [ valid |-> FALSE, reason |-> "Empty SQL" ]
        ELSE IF GetType(parsed[1]) \notin { "SELECT", "INSERT", "UPDATE", "DELETE", "WITH" }
        THEN [ valid |-> FALSE, reason |-> "Invalid statement type" ]
        ELSE IF SchemaTruthy(schema)
                /\ \E t \in tables : ~ (Len(t) = 1 /\ t[1] \in known)
        THEN [ valid |-> FALSE, reason |-> "Table not in schema" ]
        ELSE IF SchemaTruthy(schema) /\ S_ExtractColumnsRaises(sql)
        THEN [ valid |-> FALSE, reason |-> "list index out of range" ]
        ELSE IF SchemaTruthy(schema)
                /\ \E col \in S_ExtractColumns(sql) :
                      /\ HasDot(col)
                      /\ SplitDot(col)[1] \in known
                      /\ SplitDot(col)[2] \notin Schema(schema)[SplitDot(col)[1]]
        THEN [ valid |-> FALSE, reason |-> "Column not found" ]
        ELSE IF complexity = "Complex" /\ ~ S_HasComplexFeature(sql)
        THEN [ valid |-> FALSE, reason |-> "Missing complex features" ]
        ELSE [ valid |-> TRUE, reason |-> "" ]

\* the regular expression of _compare_sql_component: whether it matches,
\* and the pieces of group(1).split(',').  The text after the component must
\* be followed by WHERE, GROUP BY or ORDER BY (the "$" alternative needs
\* white space before the end of the text, which a normalized text never
\* has).  A piece keeps its leading blank: every piece but the first starts
\* with one.
S_ComponentAt(text, component) ==
    IF component = "GROUP BY" THEN FirstKw2(text, "GROUP", "BY", 1)
    ELSE IF component = "ORDER BY" THEN FirstKw2(text, "ORDER", "BY", 1)
    ELSE FirstKw(text, component, 1)

\* where the text after the component starts, and the keyword that ends it
S_ComponentBody(component, i) ==
    IF component \in { "GROUP BY", "ORDER BY" } THEN i + 2 ELSE i + 1

S_ComponentEnd(text, i, b) ==
    IF i = 0 THEN 0
    ELSE MinPos({ FirstKw(text, "WHERE", b + 1),
                  FirstKw2(text, "GROUP", "BY", b + 1),
                  FirstKw2(text, "ORDER", "BY", b + 1) })

\* group(1).split(','), as a set
S_SplitPieces(p) ==
    { << (IF k = 1 THEN "" ELSE " "), p[k] >> : k \in 1..Len(p) }

S_PiecesBetween(text, i, b, e) ==
    [ matched |-> i # 0 /\ e # 0,
      pieces  |-> IF e = 0 THEN {}
                  ELSE S_SplitPieces(SplitOn(SubSeq(text, b, e - 1), { "," })) ]

S_PiecesFrom(text, i, b) == S_PiecesBetween(text, i, b, S_ComponentEnd(text, i, b))

S_PiecesAt(text, component, i) == S_PiecesFrom(text, i, S_ComponentBody(component, i))

S_ComponentPieces(text, component) ==
    S_PiecesAt(text, component, S_ComponentAt(text, component))

\* set(gen_part) == set(exp_part), or both texts lacking the component
S_SameParts(gen_part, exp_part) ==
    IF ~ (gen_part.matched /\ exp_part.matched)
    THEN ~ gen_part.matched /\ ~ exp_part.matched
    ELSE gen_part.pieces = exp_part.pieces

\* _compare_sql_component
S_CompareSqlComponent(gen, exp, component) ==
    S_SameParts(S_ComponentPieces(gen, component), S_ComponentPieces(exp, component))

\* component in exp_norm
S_Mentions(text, component) ==
    IF component = "GROUP BY" THEN \E i \in 1..(Len(text) - 1) :
                                       text[i] = "GROUP" /\ text[i + 1] = "BY"
    ELSE IF component = "ORDER BY" THEN \E i \in 1..(Len(text) - 1) :
                                       text[i] = "ORDER" /\ text[i + 1] = "BY"
    ELSE \E i \in 1..Len(text) : text[i] = component

\* _validate_sql_result: normalize collapses white space only; "strategy"
\* records which comparison was made
S_ValidateSqlResult(generated, expected, complexity, style) ==
    IF style = "Imperative"
    THEN [ strategy |-> "Exact", value |-> generated = expected ]
    ELSE IF complexity = "Simple"
    THEN [ strategy |-> "Exact", value |-> generated = expected ]
    ELSE [ strategy |-> "Structural",
           value |-> \A c \in { "SELECT", "FROM", "WHERE", "GROUP BY", "ORDER BY" } :
                        S_Mentions(expected, c) => S_CompareSqlComponent(generated, expected, c) ]

\* needle in haystack, for texts
IsInfix(needle, haystack) ==
    \E i \in 0..(Len(haystack) - Len(needle)) :
        SubSeq(haystack, i + 1, i + Len(needle)) = needle

\* the cot text holds the fenced block, and so its SQL, when the fence
\* marker is in it
CotHolds(components, text) ==
    text = << >> \/ ("sql-fence" \in components.tags /\ IsInfix(text, Text(components.sql)))

\* _evaluate_cot, in eighths of a point
S_EvaluateCot(components, knowledge, generated_sql, expected_sql, is_sql_correct) ==
    LET structure == IF { "<think>", "<answer>" } \subseteq components.tags
                     THEN Point \div 2 ELSE 0
        found     == Cardinality({ c \in { "SELECT", "FROM", "WHERE", "JOIN" } :
                                     /\ FirstKw(generated_sql, c, 1) > 0
                                     /\ "sql-fence" \in components.tags
                                     /\ FirstKw(Text(components.sql), c, 1) > 0 })
        external  == IF knowledge THEN Point \div 2 ELSE 0
        compare   == IF ~ is_sql_correct /\ CotHolds(components, expected_sql)
                     THEN Point \div 2 ELSE 0
    IN  Min(2 * Point, structure + found + external + compare)

\* round(x, 1) for x = n / 64: the nearest tenth, a tie going to the even one
RoundTenths(n) ==
    LET q == (n * 10) \div 64
        r == (n * 10) % 64
    IN  IF r < 32 THEN q
        ELSE IF r > 32 THEN q + 1
        ELSE IF q % 2 = 0 THEN q ELSE q + 1

-----------------------------------------------------------------------------
(* The database connection of extra_info                                     *)

\* largest number of rows a statement returns
MaxRows == 3

\* the distinct rows a statement can return
RowValues == { "a", "b" }

\* the row lists fetchall() can return
RowLists == UNION { [ 1..n -> RowValues ] : n \in 0..MaxRows }

\* What running one statement on the connection does: the step that raises
\* ("no" when none does) and the rows fetchall() returns.
Outcome(raises, rows) == [ raises |-> raises, rows |-> rows ]

ExecOutcomes ==
    { Outcome("no", r) : r \in RowLists }
    \cup { Outcome(e, << >>) : e \in { "cursor", "execute", "fetchall" } }

\* extra_info: None, a dict whose 'db_connection' is None (or that has no such
\* key), or a dict with a live connection, which answers the generated and the
\* expected statement
ExtraInfo(kind, gen, exp) == [ kind |-> kind, gen |-> gen, exp |-> exp ]

NoConnection ==
    { ExtraInfo(k, Outcome("no", << >>), Outcome("no", << >>)) :
        k \in { "None", "NullConn" } }

\* the connections of the scoring runs: equal rows, reordered rows, and a
\* failure of either statement
PipelineConnections ==
    { ExtraInfo("Conn", Outcome("no", << "a", "b" >>), Outcome("no", << "a", "b" >>)),
      ExtraInfo("Conn", Outcome("no", << "b", "a" >>), Outcome("no", << "a", "b" >>)),
      ExtraInfo("Conn", Outcome("execute", << >>), Outcome("no", << "a", "b" >>)),
      ExtraInfo("Conn", Outcome("no", << "a", "b" >>), Outcome("fetchall", << >>)) }

\* every connection within the bounds
AllConnections == { ExtraInfo("Conn", g, e) : g \in ExecOutcomes, e \in ExecOutcomes }

\* a selector that never sees the connection
NeverConnected(info) == FALSE

\* extra_info.get('db_connection') if extra_info else None, as a truth value
DbConn(info) == info.kind = "Conn"

-----------------------------------------------------------------------------
(* State                                                                     *)

\* (sql_complexity, question_style): every pair of present values, and one
\* pair for each key being absent
Metadata ==
    { << c, st >> : c \in Complexities \ { "MISSING" }, st \in Styles \ { "MISSING" } }
    \cup { << "MISSING", "Vague" >>, << "Moderate", "MISSING" >> }

GroundTruth(expected, meta, schema, knowledge) ==
    [ expected_sql |-> expected, sql_complexity |-> meta[1],
      question_style |-> meta[2], db_schema |-> schema,
      external_knowledge |-> knowledge ]

GroundTruths ==
    { GroundTruth(e, m, sc, k) :
        e \in References, m \in Metadata, sc \in SchemaNames, k \in BOOLEAN }

NoResults == [ gen_done |-> FALSE, gen |-> << >>, exp_done |-> FALSE, exp |-> << >> ]

NoFlags == [ format_ok |-> FALSE, execution_ok |-> FALSE, result_ok |-> FALSE,
             reason |-> "" ]

\* the state at the entry of compute_score
Entry ==
    /\ pc = IF module = "NL2SQL" THEN "N_json" ELSE "S_structure"
    /\ calls = << >>
    /\ rewards = [ format |-> 0, execution |-> 0, result |-> 0 ]
    /\ scores = [ structure |-> 0, format |-> 0, execution |-> 0, result |-> 0, cot |-> 0 ]
    /\ sql_query = "QEmpty"
    /\ flags = NoFlags
    /\ strategy = "none"
    /\ results = NoResults
    /\ outcome = "running"
    /\ exception = ""
    /\ ret = 0

\* the arguments of the scoring runs: every well-formed response with every
\* ground truth, and the defective responses with the ground truths of one
\* reference and one schema.  synsql_reward takes extra_info and never reads
\* it; NL2SQL_reward never reads external_knowledge.
Init ==
    /\ module \in { "NL2SQL", "synsql" }
    /\ extra_info \in IF module = "synsql"
                      THEN { ExtraInfo("None", Outcome("no", << >>), Outcome("no", << >>)) }
                      ELSE NoConnection \cup PipelineConnections
    /\ solution_str \in Solutions
    /\ ground_truth \in
         { g \in GroundTruths :
             /\ module = "NL2SQL" => ~ g.external_knowledge
             /\ solution_str \in DefectiveSolutions =>
                  g.expected_sql = "QA" /\ g.db_schema = "S1" }
    /\ Entry

inputs == << module, solution_str, ground_truth, extra_info >>

Return(value) ==
    /\ outcome' = "returned" /\ ret' = value /\ exception' = "" /\ pc' = "done"

Raise(e) ==
    /\ outcome' = "raised" /\ exception' = e /\ pc' = "done" /\ UNCHANGED ret

Continue(next) ==
    /\ pc' = next /\ UNCHANGED << outcome, exception, ret >>

Called(names) == calls' = calls \o names

-----------------------------------------------------------------------------
(* NL2SQL_reward.compute_score                                               *)

\* the reward of a gate that passed; a gate that failed gets its negation
FormatReward == 1
ExecutionReward == 2
ResultReward == 3

\* sum(rewards.values()), in tenths of a point
N_Sum(r) == 10 * SumOver(r, DOMAIN r)

\* actual_response: the object's 'cot' ('' when the key is absent), or the
\* text itself when it is not JSON
N_ActualResponse(solution) ==
    IF solution.json = "object" /\ solution.cot = "absent"
    THEN [ solution EXCEPT !.tags = {}, !.closed = FALSE, !.sql = "QEmpty" ]
    ELSE solution

\* json.loads(solution_str) and response_data.get('cot', ''): a JSON value
\* that is not an object has no get
N_ParseJson ==
    /\ pc = "N_json"
    /\ IF solution_str.json = "array"
       THEN Raise("AttributeError")
       ELSE Continue("N_format")
    /\ UNCHANGED << inputs, calls, rewards, scores, sql_query, flags, strategy, results >>

\* a format gate that records its failure and goes on to the next gate
N_FormatFallThrough ==
    /\ pc = "N_format"
    /\ Called(<< "_validate_format" >>)
    /\ IF solution_str.json = "object" /\ solution_str.cot = "null"
       THEN /\ Raise("TypeError")
            /\ UNCHANGED << rewards, flags >>
       ELSE /\ rewards' = [ rewards EXCEPT !.format =
                              IF N_ValidateFormat(N_ActualResponse(solution_str))
                              THEN FormatReward ELSE - FormatReward ]
            /\ flags' = [ flags EXCEPT !.format_ok =
                            N_ValidateFormat(N_ActualResponse(solution_str)) ]
            /\ Continue("N_extract")
    /\ UNCHANGED << inputs, scores, sql_query, strategy, results >>

\* 1. Format Reward: "start in response" raises TypeError when the 'cot' is
\* null
N_Format ==
    /\ pc = "N_format"
    /\ Called(<< "_validate_format" >>)
    /\ IF solution_str.json = "object" /\ solution_str.cot = "null"
       THEN /\ Raise("TypeError")
            /\ UNCHANGED << rewards, flags >>
       ELSE IF ~ N_ValidateFormat(N_ActualResponse(solution_str))
       THEN /\ rewards' = [ rewards EXCEPT !.format = - FormatReward ]
            /\ flags' = [ flags EXCEPT !.format_ok = FALSE ]
            /\ Return(N_Sum(rewards'))
       ELSE /\ rewards' = [ rewards EXCEPT !.format = FormatReward ]
            /\ flags' = [ flags EXCEPT !.format_ok = TRUE ]
            /\ Continue("N_extract")
    /\ UNCHANGED << inputs, scores, sql_query, strategy, results >>

\* Extract SQL query: an empty query takes the format reward back
N_Extract ==
    /\ pc = "N_extract"
    /\ Called(<< "_extract_sql" >>)
    /\ sql_query' = N_ExtractSql(N_ActualResponse(solution_str))
    /\ IF Text(sql_query') = << >>
       THEN /\ rewards' = [ rewards EXCEPT !.format = - FormatReward ]
            /\ flags' = [ flags EXCEPT !.format_ok = FALSE ]
            /\ Return(N_Sum(rewards'))
       ELSE /\ UNCHANGED << rewards, flags >>
            /\ Continue("N_execution")
    /\ UNCHANGED << inputs, scores, strategy, results >>

\* 2. Execution Reward: ground_truth['sql_complexity'] raises KeyError when
\* the key is absent, before the validator is called
N_Execution ==
    /\ pc = "N_execution"
    /\ IF ground_truth.sql_complexity = "MISSING"
       THEN /\ Raise("KeyError")
            /\ UNCHANGED << calls, rewards, flags >>
       ELSE LET v == N_ValidateSqlExecution(Text(sql_query), ground_truth.db_schema,
                                            ground_truth.sql_complexity)
            IN  /\ Called(<< "_validate_sql_execution" >>)
                /\ flags' = [ flags EXCEPT !.execution_ok = v.valid, !.reason = v.reason ]
                /\ IF ~ v.valid
                   THEN /\ rewards' = [ rewards EXCEPT !.execution = - ExecutionReward ]
                        /\ Return(N_Sum(rewards'))
                   ELSE /\ rewards' = [ rewards EXCEPT !.execution = ExecutionReward ]
                        /\ Continue("N_result")
    /\ UNCHANGED << inputs, scores, sql_query, strategy, results >>

\* the end of compute_score, once is_correct is known
N_Finish(is_correct) ==
    /\ flags' = [ flags EXCEPT !.result_ok = is_correct ]
    /\ rewards' = [ rewards EXCEPT !.result = IF is_correct THEN ResultReward
                                              ELSE - ResultReward ]
    /\ Return(N_Sum(rewards'))

\* 3. Result Reward, through _validate_sql_result: with a connection the
\* execution-based comparison starts, without one _structural_sql_match
\* decides.  ground_truth['question_style'] raises KeyError when absent.
N_Result ==
    /\ pc = "N_result"
    /\ IF ground_truth.question_style = "MISSING"
       THEN /\ Raise("KeyError")
            /\ UNCHANGED << calls, rewards, flags, strategy >>
       ELSE IF DbConn(extra_info)
       THEN /\ Called(<< "_validate_sql_result", "_compare_execution_results" >>)
            /\ strategy' = "Execution"
            /\ Continue("N_exec_gen")
            /\ UNCHANGED << rewards, flags >>
       ELSE LET m == N_StructuralSqlMatch(Text(sql_query), Text(ground_truth.expected_sql),
                                          ground_truth.sql_complexity,
                                          ground_truth.question_style)
            IN  /\ Called(<< "_validate_sql_result", "_structural_sql_match" >>)
                /\ strategy' = m.strategy
                /\ IF m.raised
                   THEN /\ Raise("IndexError")
                        /\ UNCHANGED << rewards, flags >>
                   ELSE N_Finish(m.value)
    /\ UNCHANGED << inputs, scores, sql_query, results >>

\* an order_matters that looks at the generated statement
N_OrderFromCandidate(expected_sql, question_style) ==
    FirstKw2(Text(sql_query), "ORDER", "BY", 1) > 0 \/ question_style # "Vague"

\* order_matters of _compare_execution_results
N_OrderMatters(expected_sql, question_style) ==
    FirstKw2(expected_sql, "ORDER", "BY", 1) > 0 \/ question_style # "Vague"

\* the comparison of the two fetched row lists
N_CompareRows(gen_results, exp_results, order_matters) ==
    IF Len(gen_results) # Len(exp_results) THEN FALSE
    ELSE IF order_matters THEN gen_results = exp_results
    ELSE Range(gen_results) = Range(exp_results)

\* an execution failure that is not caught
N_ExecutionPropagates ==
    /\ Raise("OperationalError")
    /\ UNCHANGED << rewards, flags >>

\* what the except clause of _compare_execution_results does with an
\* exception: it logs and returns False
N_ExecutionFailed == N_Finish(FALSE)

\* _compare_execution_results: cursor(), execute(generated_sql), fetchall()
N_ExecuteGenerated ==
    /\ pc = "N_exec_gen"
    /\ Called(IF extra_info.gen.raises = "cursor" THEN << >> ELSE << "execute generated" >>)
    /\ IF extra_info.gen.raises # "no"
       THEN /\ N_ExecutionFailed
            /\ UNCHANGED results
       ELSE /\ results' = [ results EXCEPT !.gen_done = TRUE, !.gen = extra_info.gen.rows ]
            /\ Continue("N_exec_exp")
            /\ UNCHANGED << rewards, flags >>
    /\ UNCHANGED << inputs, scores, sql_query, strategy >>

\* _compare_execution_results: cursor(), execute(expected_sql), fetchall()
N_ExecuteExpected ==
    /\ pc = "N_exec_exp"
    /\ Called(IF extra_info.exp.raises = "cursor" THEN << >> ELSE << "execute expected" >>)
    /\ IF extra_info.exp.raises # "no"
       THEN /\ N_ExecutionFailed
            /\ UNCHANGED results
       ELSE /\ results' = [ results EXCEPT !.exp_done = TRUE, !.exp = extra_info.exp.rows ]
            /\ Continue("N_compare")
            /\ UNCHANGED << rewards, flags >>
    /\ UNCHANGED << inputs, scores, sql_query, strategy >>

\* _compare_execution_results: the comparison of the result sets, and the
\* end of compute_score
N_Compare ==
    /\ pc = "N_compare"
    /\ N_Finish(N_CompareRows(results.gen, results.exp,
                              N_OrderMatters(Text(ground_truth.expected_sql),
                                             ground_truth.question_style)))
    /\ UNCHANGED << inputs, calls, scores, sql_query, strategy, results >>

N_Next ==
    \/ N_ParseJson \/ N_Format \/ N_Extract \/ N_Execution \/ N_Result
    \/ N_ExecuteGenerated \/ N_ExecuteExpected \/ N_Compare

-----------------------------------------------------------------------------
(* synsql_reward.compute_score                                               *)

\* the points of the components, and the caps of the final adjustments
StructurePoints == 1
FormatPoints == 1
ExecutionPoints == 3
ResultPoints == 3
Ceiling == 10
ExecutionCap == 3
FormatCap == 1

\* sum(scores.values()), in eighths of a point
S_Sum(sc) == SumOver(sc, DOMAIN sc)

\* a normalization without the ceiling
S_NormalizeUncapped(raw_total) == raw_total * 10

\* raw_total * (10.0 / 8.0) capped at 10.0, in 64ths of a point
S_Normalize(raw_total) == Min(Ceiling * 64, raw_total * 10)

\* adjustments that apply the execution cap to every total
S_AdjustAlwaysCapped(normalized_total, execution_ok, format_ok) ==
    Min(normalized_total, ExecutionCap * 64)

\* adjustments that cap nothing
S_AdjustNothing(normalized_total, execution_ok, format_ok) == normalized_total

\* adjustments without the cap for format failures
S_AdjustExecutionOnly(normalized_total, execution_ok, format_ok) ==
    IF ~ execution_ok THEN Min(normalized_total, ExecutionCap * 64) ELSE normalized_total

\* the final adjustments, in 64ths of a point
S_Adjust(normalized_total, execution_ok, format_ok) ==
    LET a == IF ~ execution_ok THEN Min(normalized_total, ExecutionCap * 64)
             ELSE normalized_total
    IN  IF ~ format_ok THEN Min(a, FormatCap * 64) ELSE a

\* 1. Validate JSON structure; an invalid structure returns at once
S_Structure ==
    /\ pc = "S_structure"
    /\ Called(<< "_validate_structure" >>)
    /\ IF ~ S_ValidateStructure(solution_str)
       THEN /\ scores' = [ scores EXCEPT !.structure = 0 ]
            /\ Return((Min(S_Sum(scores'), Point) * 10) \div Point)
       ELSE /\ scores' = [ scores EXCEPT !.structure = StructurePoints * Point ]
            /\ Continue("S_format")
    /\ UNCHANGED << inputs, rewards, sql_query, flags, strategy, results >>

\* 2. Validate formatting; components['sql'] is the candidate SQL
S_Format ==
    /\ pc = "S_format"
    /\ Called(<< "_extract_components", "_validate_format" >>)
    /\ sql_query' = solution_str.sql
    /\ flags' = [ flags EXCEPT !.format_ok = S_ValidateFormat(solution_str) ]
    /\ scores' = [ scores EXCEPT !.format = IF flags'.format_ok
                                            THEN FormatPoints * Point ELSE 0 ]
    /\ Continue("S_execution")
    /\ UNCHANGED << inputs, rewards, strategy, results >>

\* 3. Validate SQL execution
S_Execution ==
    /\ pc = "S_execution"
    /\ IF ground_truth.sql_complexity = "MISSING"
       THEN /\ Raise("KeyError")
            /\ UNCHANGED << calls, scores, flags >>
       ELSE LET v == S_ValidateSqlExecution(Text(sql_query), ground_truth.db_schema,
                                            ground_truth.sql_complexity)
            IN  /\ Called(<< "_validate_sql_execution" >>)
                /\ flags' = [ flags EXCEPT !.execution_ok = v.valid, !.reason = v.reason ]
                /\ scores' = [ scores EXCEPT !.execution = IF v.valid
                                                           THEN ExecutionPoints * Point ELSE 0 ]
                /\ Continue("S_result")
    /\ UNCHANGED << inputs, rewards, sql_query, strategy, results >>

\* 4. Validate SQL results, only if execution_ok
S_Result ==
    /\ pc = "S_result"
    /\ IF ~ flags.execution_ok
       THEN /\ Continue("S_cot")
            /\ UNCHANGED << calls, scores, flags, strategy >>
       ELSE IF ground_truth.question_style = "MISSING"
       THEN /\ Raise("KeyError")
            /\ UNCHANGED << calls, scores, flags, strategy >>
       ELSE LET r == S_ValidateSqlResult(Text(sql_query), Text(ground_truth.expected_sql),
                                         ground_truth.sql_complexity,
                                         ground_truth.question_style)
            IN  /\ Called(<< "_validate_sql_result" >>)
                /\ strategy' = r.strategy
                /\ flags' = [ flags EXCEPT !.result_ok = r.value ]
                /\ scores' = [ scores EXCEPT !.result = IF r.value
                                                        THEN ResultPoints * Point ELSE 0 ]
                /\ Continue("S_cot")
    /\ UNCHANGED << inputs, rewards, sql_query, results >>

\* a CoT step that evaluates the CoT only when validation passed
S_CotOnlyWhenValid ==
    /\ pc = "S_cot"
    /\ IF flags.execution_ok /\ flags.format_ok
       THEN /\ Called(<< "_evaluate_cot" >>)
            /\ scores' = [ scores EXCEPT !.cot =
                             S_EvaluateCot(solution_str, ground_truth.external_knowledge,
                                           Text(sql_query), Text(ground_truth.expected_sql),
                                           scores.result > 0) ]
       ELSE UNCHANGED << calls, scores >>
    /\ Continue("S_total")
    /\ UNCHANGED << inputs, rewards, sql_query, flags, strategy, results >>

\* 5. Evaluate CoT quality
S_Cot ==
    /\ pc = "S_cot"
    /\ Called(<< "_evaluate_cot" >>)
    /\ scores' = [ scores EXCEPT !.cot =
                     S_EvaluateCot(solution_str, ground_truth.external_knowledge,
                                   Text(sql_query), Text(ground_truth.expected_sql),
                                   flags.execution_ok /\ scores.result > 0) ]
    /\ Continue("S_total")
    /\ UNCHANGED << inputs, rewards, sql_query, flags, strategy, results >>

\* the total: normalization to the 10-point scale, the final adjustments,
\* rounding to one decimal
S_Total ==
    /\ pc = "S_total"
    /\ Return(RoundTenths(S_Adjust(S_Normalize(S_Sum(scores)),
                                   flags.execution_ok, flags.format_ok)))
    /\ UNCHANGED << inputs, calls, rewards, scores, sql_query, flags, strategy, results >>

S_Next ==
    \/ S_Structure \/ S_Format \/ S_Execution \/ S_Result \/ S_Cot \/ S_Total

-----------------------------------------------------------------------------
(* Specifications                                                            *)

Next == N_Next \/ S_Next

\* one call of either compute_score, on every input of the catalogue
Spec == Init /\ [][Next]_vars

\* the execution-based comparison on every connection within the bounds: a
\* well-formed response and a reference, each with and without ORDER BY, a style for
\* which order matters and one for which it does not
InitExec ==
    /\ module = "NL2SQL"
    /\ extra_info \in AllConnections
    /\ solution_str \in
         { Response("object", "str", TRUE, AllTags, TRUE, c) : c \in { "QRef", "QOrder" } }
    /\ ground_truth \in
         { GroundTruth(e, << "Simple", st >>, "S1", FALSE) :
             e \in { "QRef", "QOrder" }, st \in { "Vague", "Imperative" } }
    /\ Entry

SpecExec == InitExec /\ [][N_Next]_vars

-----------------------------------------------------------------------------
(* Properties                                                                *)

WasCalled(name) == \E i \in 1..Len(calls) : calls[i] = name

\* every call of a precedes every call of b
Before(a, b) ==
    \A i, j \in 1..Len(calls) : (calls[i] = a /\ calls[j] = b) => i < j

Finished == pc = "done"

StructureFailed == WasCalled("_validate_structure") /\ scores.structure = 0

FormatFailed == WasCalled("_validate_format") /\ ~ flags.format_ok

ValidationFailed == WasCalled("_validate_sql_execution") /\ ~ flags.execution_ok

Connected == extra_info.kind = "Conn"

KnownComplexities == { "Simple", "Moderate", "Complex" }

KnownStyles == { "Vague", "Colloquial", "Imperative" }

\* C1 (as the code has it): the gates are called in the order format,
\* validation, result.  In NL2SQL_reward a failed gate ends the call and no
\* later gate is called.  In synsql_reward only a failed structure check ends
\* the call; after a failed format check _validate_sql_execution and
\* _evaluate_cot are still called, and a failed validation skips
\* _validate_sql_result only.
C1_GateOrder ==
    /\ Before("_validate_format", "_validate_sql_execution")
    /\ Before("_validate_sql_execution", "_validate_sql_result")
    /\ module = "NL2SQL" =>
         /\ FormatFailed => /\ ~ WasCalled("_validate_sql_execution")
                            /\ ~ WasCalled("_validate_sql_result")
         /\ ValidationFailed => ~ WasCalled("_validate_sql_result")
         /\ (FormatFailed \/ ValidationFailed) => Finished
    /\ module = "synsql" =>
         /\ StructureFailed => Finished /\ calls = << "_validate_structure" >>
         /\ ValidationFailed => ~ WasCalled("_validate_sql_result")
         /\ (Finished /\ outcome = "returned" /\ ~ StructureFailed) =>
               /\ WasCalled("_validate_sql_execution")
               /\ WasCalled("_evaluate_cot")

\* a call of synsql_reward whose format check failed and that went on to
\* validate and compare the SQL
C1_Witness ==
    /\ module = "synsql" /\ Finished /\ FormatFailed
    /\ WasCalled("_validate_sql_execution") /\ WasCalled("_validate_sql_result")

\* C1 as stated: in both modules a failed gate ends the call, so that no
\* later gate is called
C1_ShortCircuit ==
    /\ FormatFailed => /\ ~ WasCalled("_validate_sql_execution")
                       /\ ~ WasCalled("_validate_sql_result")
    /\ ValidationFailed => ~ WasCalled("_validate_sql_result")

\* the tables a statement names: the word after FROM, after JOIN, and after
\* each comma of the FROM clause
ReferencedTables(sql) ==
    { sql[k + 1] : k \in { i \in 1..(Len(sql) - 1) :
        \/ IsKw(sql[i], "FROM")
        \/ IsKw(sql[i], "JOIN")
        \/ /\ sql[i] = ","
           /\ FirstKw(sql, "FROM", 1) \in 1..i
           /\ FirstKw(sql, "WHERE", 1) \notin 1..i } }

\* C2: when the schema is not empty and the candidate SQL names a table that
\* is not a key of the schema, _validate_sql_execution returns False with
\* the reason that the table is not in the schema, and _validate_sql_result
\* is not called.
C2_MissingTableRejected ==
    ( /\ WasCalled("_validate_sql_execution")
      /\ SchemaTruthy(ground_truth.db_schema)
      /\ ~ (ReferencedTables(Text(sql_query)) \subseteq
              DOMAIN Schema(ground_truth.db_schema)) )
    => /\ ~ flags.execution_ok
       /\ flags.reason = "Table not in schema"
       /\ ~ WasCalled("_validate_sql_result")

\* what _compare_execution_results returns on the connection of extra_info
ExecutionVerdict ==
    /\ extra_info.gen.raises = "no" /\ extra_info.exp.raises = "no"
    /\ N_CompareRows(extra_info.gen.rows, extra_info.exp.rows,
                     N_OrderMatters(Text(ground_truth.expected_sql),
                                    ground_truth.question_style))

ComparedOffline ==
    /\ WasCalled("_validate_sql_result") /\ ~ Connected /\ outcome # "raised"
    /\ ground_truth.sql_complexity \in KnownComplexities
    /\ ground_truth.question_style \in KnownStyles

\* C4 (as the code has it): without a connection every documented pair of
\* complexity and style resolves to exactly one strategy.  In synsql_reward
\* it is Exact if the complexity is Simple or the style Imperative, else
\* Structural.  In NL2SQL_reward it is Exact if the complexity is Simple or
\* the style is not Vague, and Structural only for a Vague style with a
\* Moderate or Complex complexity.
C4_StrategySelection ==
    ComparedOffline =>
        strategy =
            IF module = "synsql"
            THEN IF ground_truth.sql_complexity = "Simple"
                    \/ ground_truth.question_style = "Imperative"
                 THEN "Exact" ELSE "Structural"
            ELSE IF ground_truth.sql_complexity = "Simple"
                    \/ ground_truth.question_style # "Vague"
                 THEN "Exact" ELSE "Structural"

\* NL2SQL_reward compares a Moderate, Colloquial pair by the whole text
C4_Witness ==
    /\ module = "NL2SQL" /\ ComparedOffline
    /\ ground_truth.sql_complexity = "Moderate"
    /\ ground_truth.question_style = "Colloquial"
    /\ strategy = "Exact"

\* C4 as stated: in both modules the strategy is Exact if the complexity is
\* Simple or the style Imperative, and Structural for every other pair
C4_ExactIffSimpleOrImperative ==
    ComparedOffline =>
        strategy = IF ground_truth.sql_complexity = "Simple"
                      \/ ground_truth.question_style = "Imperative"
                   THEN "Exact" ELSE "Structural"

\* C5: when the complexity or the style is outside its enumeration (unknown
\* or missing) and there is no connection, the comparison of a validated
\* candidate with the reference uses the Structural strategy.
C5_UnknownDefaultsToStructural ==
    ( /\ Finished /\ ~ Connected
      /\ WasCalled("_validate_sql_execution") /\ flags.execution_ok
      /\ Text(ground_truth.expected_sql) # << >>
      /\ \/ ground_truth.sql_complexity \notin KnownComplexities
         \/ ground_truth.question_style \notin KnownStyles )
    => strategy = "Structural"

\* how often a row occurs in a row list
Occurrences(rows, v) == Cardinality({ i \in 1..Len(rows) : rows[i] = v })

\* the two row lists are equal as multisets
SameBag(a, b) == \A v \in RowValues : Occurrences(a, v) = Occurrences(b, v)

\* both statements ran and their rows were compared
RowsCompared ==
    /\ module = "NL2SQL" /\ Finished /\ outcome = "returned"
    /\ results.gen_done /\ results.exp_done

\* C6: when order does not matter (the reference has no ORDER BY and the
\* style is Vague), _compare_execution_results returns True if and only if
\* the candidate's rows and the reference's rows are equal as multisets.
C6_MultisetComparison ==
    ( /\ RowsCompared
      /\ ~ N_OrderMatters(Text(ground_truth.expected_sql), ground_truth.question_style) )
    => (flags.result_ok <=> SameBag(results.gen, results.exp))

\* a statement run by _compare_execution_results raised
ExecutionRaised ==
    \/ extra_info.gen.raises # "no"
    \/ extra_info.exp.raises # "no"

\* C7: if running the candidate or the reference on the connection raises
\* (obtaining the cursor, executing, or fetching the rows),
\* _compare_execution_results returns False: compute_score returns, with the
\* result gate failed, and no exception leaves it.
C7_ExecutionFailureIsFalse ==
    (module = "NL2SQL" /\ WasCalled("_compare_execution_results")) =>
        /\ outcome # "raised"
        /\ (Finished /\ ExecutionRaised) =>
              /\ outcome = "returned"
              /\ ~ flags.result_ok
              /\ rewards.result = - ResultReward
              /\ ret = N_Sum(rewards)

\* the candidate ran, and fetching the rows of the reference raised
C7_Witness ==
    /\ module = "NL2SQL" /\ Finished /\ WasCalled("_compare_execution_results")
    /\ results.gen_done /\ ~ results.exp_done
    /\ extra_info.exp.raises = "fetchall"
    /\ outcome = "returned"

\* C8: compute_score never raises when ground_truth carries the documented
\* keys: every call ends by returning a score.
C8_NeverRaises ==
    ( /\ ground_truth.sql_complexity # "MISSING"
      /\ ground_truth.question_style # "MISSING" )
    => outcome # "raised"

\* C9: a returned value lies in [0.0, 10.0] for synsql_reward and in [-1, 6]
\* for NL2SQL_reward (ret is in tenths of a point).
C9_BoundedRange ==
    outcome = "returned" =>
        IF module = "synsql"
        THEN 0 <= ret /\ ret <= 10 * 10
        ELSE - 1 * 10 <= ret /\ ret <= 6 * 10

\* synsql_reward returns 10.0, the raw total being above the ceiling
C9_Witness ==
    /\ module = "synsql" /\ outcome = "returned"
    /\ S_Sum(scores) * 10 > S_Normalize(S_Sum(scores))
    /\ ret = 10 * 10

\* the sum of the rewards of the gates that passed, in tenths of a point
PassedGatesSum ==
    10 * ( (IF flags.format_ok THEN FormatReward ELSE 0)
           + (IF flags.execution_ok THEN ExecutionReward ELSE 0)
           + (IF flags.result_ok THEN ResultReward ELSE 0) )

\* C10: NL2SQL_reward.compute_score returns the sum of the rewards of the
\* gates that passed, a failed gate adding nothing (1.0, 3.0 and 6.0), each
\* within the tests' tolerance of 0.5.
C10_SumOfPassedGates ==
    (module = "NL2SQL" /\ outcome = "returned") =>
        /\ ret - PassedGatesSum < 5
        /\ PassedGatesSum - ret < 5

\* the four gates of synsql_reward all passed
AllGatesPassed ==
    /\ module = "synsql" /\ outcome = "returned"
    /\ ~ StructureFailed /\ flags.format_ok /\ flags.execution_ok /\ flags.result_ok

\* C11: synsql_reward.compute_score returns exactly 10.0 when the structure,
\* format, execution and result gates all pass, whatever _evaluate_cot adds.
C11_AllPassIsTen ==
    AllGatesPassed => ret = 10 * 10

\* all gates passed, the CoT component adding a point or more
C11_Witness ==
    AllGatesPassed /\ scores.cot >= Point /\ ret = 10 * 10

\* the tokens of a statement from its first keyword kw on, up to the token
\* before position e (to the end of the text when e = 0); empty without kw
FromKeyword(sql, kw, e) ==
    IF FirstKw(sql, kw, 1) = 0 THEN << >>
    ELSE SubSeq(sql, FirstKw(sql, kw, 1), IF e = 0 THEN Len(sql) ELSE e - 1)

\* the conditions of the WHERE clause, and the words that join them
WhereConditions(sql) ==
    IF FirstKw(sql, "WHERE", 1) = 0 THEN {}
    ELSE Range(SplitConditions(SubSeq(sql, FirstKw(sql, "WHERE", 1) + 1, Len(sql))))

WhereConnectives(sql) ==
    { sql[i] : i \in { k \in 1..Len(sql) :
        FirstKw(sql, "WHERE", 1) \in 1..k /\ sql[k] \in { "AND", "OR" } } }

\* two statements that differ only in the order of their joined tables and
\* of their AND-ed WHERE conditions
DiffersInOrderOnly(a, b) ==
    /\ a # b /\ Len(a) = Len(b)
    /\ FromKeyword(a, "SELECT", FirstKw(a, "FROM", 1))
         = FromKeyword(b, "SELECT", FirstKw(b, "FROM", 1))
    /\ ReferencedTables(a) = ReferencedTables(b)
    /\ FromKeyword(a, "ON", FirstKw(a, "WHERE", 1))
         = FromKeyword(b, "ON", FirstKw(b, "WHERE", 1))
    /\ WhereConditions(a) = WhereConditions(b)
    /\ WhereConnectives(a) \subseteq { "AND" }
    /\ WhereConnectives(b) \subseteq { "AND" }

\* the comparison was made without a connection, by the Structural strategy
ComparedStructurally ==
    /\ WasCalled("_validate_sql_result") /\ ~ Connected /\ outcome # "raised"
    /\ strategy = "Structural"

\* C12: under the structural policy with complexity Moderate and no
\* connection, a candidate and a reference that differ only in the order of
\* their joined tables and of their AND-ed WHERE conditions are a match.
C12_ReorderedMatches ==
    ( /\ ComparedStructurally
      /\ ground_truth.sql_complexity = "Moderate"
      /\ DiffersInOrderOnly(Text(sql_query), Text(ground_truth.expected_sql)) )
    => flags.result_ok

\* two statements that are the same but for AND in one where the other has OR
DiffersInConnectiveOnly(a, b) ==
    /\ a # b /\ Len(a) = Len(b)
    /\ \A i \in 1..Len(a) : a[i] # b[i] =>
          /\ { a[i], b[i] } = { "AND", "OR" }
          /\ FirstKw(a, "WHERE", 1) \in 1..i

\* C13: under the structural policy, two statements that are the same except
\* that one joins two WHERE conditions with AND and the other with OR are a
\* mismatch.
C13_AndOrMismatch ==
    ( /\ ComparedStructurally
      /\ DiffersInConnectiveOnly(Text(sql_query), Text(ground_truth.expected_sql)) )
    => ~ flags.result_ok

\* a statement with its table and column names in lower case
CaseFolded(sql) ==
    [ i \in 1..Len(sql) |-> IF IsKeyword(sql[i]) THEN sql[i] ELSE Lower(sql[i]) ]

\* what the module's _validate_sql_execution makes of a statement, with the
\* schema and the complexity of the ground truth
ValidatedAs(sql) ==
    IF module = "NL2SQL"
    THEN N_ValidateSqlExecution(sql, ground_truth.db_schema,
                                ground_truth.sql_complexity).valid
    ELSE S_ValidateSqlExecution(sql, ground_truth.db_schema,
                                ground_truth.sql_complexity).valid

\* C14: schema validation compares table and column names without regard to
\* letter case: a candidate passes exactly as the same statement with its
\* names in the schema's lower case would.
C14_CaseInsensitiveSchema ==
    (WasCalled("_validate_sql_execution") /\ SchemaTruthy(ground_truth.db_schema))
    => (flags.execution_ok <=> ValidatedAs(CaseFolded(Text(sql_query))))

\* the aliases a statement gives its tables: the word after a FROM or JOIN
\* table, with or without AS
TableAliases(sql) ==
    { sql[k] : k \in { i \in 3..Len(sql) :
        /\ IsWord(sql[i]) /\ ~ IsKeyword(sql[i])
        /\ \/ IsKw(sql[i - 2], "FROM") \/ IsKw(sql[i - 2], "JOIN")
           \/ /\ i > 3 /\ IsKw(sql[i - 1], "AS")
              /\ IsKw(sql[i - 3], "FROM") \/ IsKw(sql[i - 3], "JOIN") } }

\* a qualified column of the statement whose qualifier is neither a table of
\* the schema nor an alias
HasUnresolvedQualifier(sql, schema) ==
    \E i \in 1..Len(sql) :
        /\ HasDot(sql[i])
        /\ SplitDot(sql[i])[1] \notin DOMAIN Schema(schema)
        /\ SplitDot(sql[i])[1] \notin TableAliases(sql)

\* C15: with a schema, a qualified column whose qualifier is no table of the
\* schema and no alias makes _validate_sql_execution return invalid.
C15_UnresolvedQualifierFails ==
    ( /\ WasCalled("_validate_sql_execution")
      /\ SchemaTruthy(ground_truth.db_schema)
      /\ HasUnresolvedQualifier(Text(sql_query), ground_truth.db_schema) )
    => ~ flags.execution_ok

\* the kind of a statement: its leading keyword
StatementKind(sql) == IF sql = << >> THEN "NONE" ELSE Upper(sql[1])

RejectedForTable ==
    ~ flags.execution_ok /\ flags.reason = "Table not in schema"

\* the lenient half of C17: for a Complex query one table of the schema
\* among the referenced tables is enough
LenientWhenComplex ==
    ( /\ ground_truth.sql_complexity = "Complex"
      /\ ReferencedTables(Text(sql_query)) \cap DOMAIN Schema(ground_truth.db_schema) # {} )
    => ~ RejectedForTable

\* the strict half of C17: for a Simple or Moderate query every referenced
\* table must be in the schema
StrictOtherwise ==
    ( /\ ground_truth.sql_complexity \in { "Simple", "Moderate" }
      /\ ~ (ReferencedTables(Text(sql_query)) \subseteq
              DOMAIN Schema(ground_truth.db_schema)) )
    => ~ flags.execution_ok

\* C17: with a schema, validation of a Complex query passes the table check
\* when at least one referenced table is in the schema, even if others are
\* not; for Simple and Moderate any referenced table missing from the schema
\* fails.
C17_LenientForComplex ==
    (WasCalled("_validate_sql_execution") /\ SchemaTruthy(ground_truth.db_schema))
    => (LenientWhenComplex /\ StrictOtherwise)

\* C18 (as the code has it): synsql_reward.compute_score calls _evaluate_cot
\* in every call whose structure check passed, whether or not the format
\* check and the validation passed, and its result is added to the raw
\* total (the caps bound the total afterwards).  Only a failed structure
\* check leaves the CoT component at 0 without evaluating it.
C18_CotAfterStructure ==
    module = "synsql" =>
        /\ StructureFailed => (~ WasCalled("_evaluate_cot") /\ scores.cot = 0)
        /\ (Finished /\ outcome = "returned" /\ ~ StructureFailed)
              => WasCalled("_evaluate_cot")
        /\ WasCalled("_evaluate_cot") =>
              scores.cot = S_EvaluateCot(solution_str, ground_truth.external_knowledge,
                                         Text(sql_query), Text(ground_truth.expected_sql),
                                         flags.execution_ok /\ scores.result > 0)

\* validation failed and the CoT component is positive
C18_Witness ==
    /\ module = "synsql" /\ Finished /\ outcome = "returned"
    /\ ValidationFailed /\ WasCalled("_evaluate_cot") /\ scores.cot > 0

\* C18 as stated: when the format check or the validation failed, the CoT
\* component is 0 and _evaluate_cot is not called
C18_CotOnlyAfterGates ==
    (module = "synsql" /\ (StructureFailed \/ FormatFailed \/ ValidationFailed))
    => (scores.cot = 0 /\ ~ WasCalled("_evaluate_cot"))

\* a call of synsql_reward that went through the total
Totalled == module = "synsql" /\ outcome = "returned" /\ ~ StructureFailed

\* C19 (as the code has it): synsql_reward.compute_score sums the
\* components, rescales the sum to the 10-point ceiling, and applies the
\* execution-failure and format-failure caps to the rescaled total, so that
\* the returned value is at most 3.0 after a failed validation and at most
\* 1.0 after a failed format check.
C19_RescaleThenCaps ==
    Totalled =>
        /\ ret = RoundTenths(S_Adjust(S_Normalize(S_Sum(scores)),
                                      flags.execution_ok, flags.format_ok))
        /\ ~ flags.execution_ok => ret <= ExecutionCap * 10
        /\ ~ flags.format_ok => ret <= FormatCap * 10

\* the rescaled total was above the execution cap and was cut to 3.0
C19_Witness ==
    /\ Totalled /\ ~ flags.execution_ok /\ flags.format_ok
    /\ S_Normalize(S_Sum(scores)) > ExecutionCap * 64
    /\ ret = ExecutionCap * 10

\* the total with the caps applied to the raw sum (in eighths of a point)
\* and the rescale applied after them
CapsThenRescale ==
    RoundTenths(S_Normalize(
        S_Adjust(S_Sum(scores) * 8, flags.execution_ok, flags.format_ok) \div 8))

\* C19 as stated: the caps are applied to the raw sum and the rescale to the
\* 10-point ceiling comes after them
C19_CapsThenRescale ==
    Totalled => ret = CapsThenRescale

\* the statement has an ORDER BY clause
HasOrderBy(sql) == \E i \in 1..(Len(sql) - 1) : sql[i] = "ORDER" /\ sql[i + 1] = "BY"

\* the reference has an ORDER BY clause or the style is not Vague
OrderedComparison ==
    HasOrderBy(Text(ground_truth.expected_sql)) \/ ground_truth.question_style # "Vague"

\* C20: _compare_execution_results compares the two row lists as ordered
\* sequences if and only if the reference has an ORDER BY clause or the
\* question style is not Vague; otherwise the order of the rows is ignored
\* (a reordering of the reference's rows is accepted). The candidate's own
\* ORDER BY plays no part, and lists of different lengths are never equal.
C20_OrderSensitivity ==
    RowsCompared =>
        /\ Len(results.gen) # Len(results.exp) => ~ flags.result_ok
        /\ OrderedComparison => (flags.result_ok <=> results.gen = results.exp)
        /\ ~ OrderedComparison =>
              /\ flags.result_ok <=>
                    ( /\ Len(results.gen) = Len(results.exp)
                      /\ Range(results.gen) = Range(results.exp) )
              /\ SameBag(results.gen, results.exp) => flags.result_ok

\* a candidate with ORDER BY whose rows are the reference's in another order
\* is accepted when the reference has no ORDER BY and the style is Vague
C20_Witness ==
    /\ RowsCompared /\ ~ OrderedComparison
    /\ HasOrderBy(Text(sql_query))
    /\ results.gen # results.exp /\ SameBag(results.gen, results.exp)
    /\ flags.result_ok

\* C21: whatever the other components are, a score returned by
\* synsql_reward.compute_score is at most 3.0 when the execution validation
\* failed, and at most 1.0 when the format validation or the structure check
\* failed.
C21_CapsHold ==
    (module = "synsql" /\ outcome = "returned") =>
        /\ ValidationFailed => ret <= ExecutionCap * 10
        /\ FormatFailed => ret <= FormatCap * 10
        /\ StructureFailed => ret <= FormatCap * 10

\* a format failure with components worth more than the cap: execution and
\* result were awarded and the score returned is the cap
C21_Witness ==
    /\ module = "synsql" /\ outcome = "returned"
    /\ FormatFailed /\ ~ ValidationFailed
    /\ scores.execution > 0 /\ scores.result > 0
    /\ S_Normalize(S_Sum(scores)) > FormatCap * 64
    /\ ret = FormatCap * 10

\* every statement of the text is a SELECT and, when a schema is given, every
\* extracted table is in it
PassesValidation(sql, schema) ==
    /\ Parse(sql) # << >>
    /\ \A k \in 1..Len(Parse(sql)) : GetType(Parse(sql)[k]) = "SELECT"
    /\ SchemaTruthy(schema) => N_ExtractTables(sql) \subseteq DOMAIN Schema(schema)

\* C22: NL2SQL_reward.compute_score passes the candidate to execute only
\* after the format gate and _validate_sql_execution accepted it (every
\* statement a SELECT, every extracted table in a given schema); a candidate
\* that failed a gate is never executed; the candidate is executed before
\* the reference, and the reference is not executed when running the
\* candidate raised.
C22_ExecuteOnlyValidated ==
    module = "NL2SQL" =>
        /\ WasCalled("execute generated") =>
              /\ WasCalled("_validate_format") /\ flags.format_ok
              /\ WasCalled("_validate_sql_execution") /\ flags.execution_ok
              /\ Before("_validate_format", "execute generated")
              /\ Before("_validate_sql_execution", "execute generated")
              /\ PassesValidation(Text(sql_query), ground_truth.db_schema)
        /\ (FormatFailed \/ ValidationFailed) =>
              (~ WasCalled("execute generated") /\ ~ WasCalled("execute expected"))
        /\ WasCalled("execute expected") =>
              /\ WasCalled("execute generated")
              /\ Before("execute generated", "execute expected")
              /\ extra_info.gen.raises = "no"

\* running the validated candidate raised: the call returned without
\* executing the reference
C22_Witness ==
    /\ module = "NL2SQL" /\ Finished /\ outcome = "returned"
    /\ WasCalled("execute generated") /\ extra_info.gen.raises = "execute"
    /\ ~ WasCalled("execute expected")
    /\ ~ flags.result_ok

=============================================================================
